---- MODULE Spec2Model ----
(***************************************************************************)
(* Model of the acquisitions API: the Express middleware chain of app.js,  *)
(* the security middleware (request gate) as documented statement by       *)
(* statement in the security analysis report, the auth controllers and     *)
(* the cookie helper.  One request is followed from the first stage of the *)
(* chain to its end.                                                       *)
(***************************************************************************)
EXTENDS Integers, Sequences, FiniteSets, TLC

VARIABLES
  expressMajor,  \* major version of the installed express: 4 or 5
  nodeEnv,       \* process.env.NODE_ENV
  req,           \* the request: method, path, user (req.user), bodyOk
  pc,            \* position of the request in the chain / in the gate
  stagesRun,     \* stages that processed the request, in order
  role,          \* const role of the security middleware
  handed,        \* what client.protect was called with (role and rule)
  decision,      \* outcome of the classifier call
  gateNext,      \* number of next() calls made by the security middleware
  gateAttempts,  \* statuses of the res.status(..).json(..) calls of the gate
  sent,          \* responses written to the socket
  thrown,        \* exception in flight
  propagated,    \* how an error left the security middleware
  handlerRan,    \* route handler that ran
  ctrl,          \* what the auth controller did
  cookie         \* Set-Cookie state of the response

vars == <<expressMajor, nodeEnv, req, pc, stagesRun, role, handed, decision,
          gateNext, gateAttempts, sent, thrown, propagated, handlerRan, ctrl,
          cookie>>

-----------------------------------------------------------------------------
(* Inputs *)

\* req.user is undefined
NoUser == [present |-> FALSE, role |-> ""]

Methods == {"GET", "POST", "OPTIONS"}

Paths == {"/", "/health", "/api", "/api/auth/sign-up", "/api/auth/sign-in",
          "/api/auth/sign-out", "/missing"}

\* req.user as an upstream authentication stage would set it; "" is a
\* missing (falsy) role
Identities == {[present |-> TRUE, role |-> r] : r \in {"admin", "user", "guest", ""}}

DeniedReasons == {"Bot", "Shield", "RateLimit", "Other"}

Outcomes == {"Allowed"} \cup DeniedReasons \cup {"Failed"}

NoCtrl == [validated |-> "none", serviceCalled |-> FALSE, service |-> "none",
           tokenSigned |-> FALSE, nextErr |-> FALSE]

-----------------------------------------------------------------------------
(* app.js: the chain *)

ChainSkipGate == <<"helmet", "cors", "json", "cookieParser", "urlencoded",
                   "morgan", "router", "security">>

\* the order of the app.use calls
Chain == <<"helmet", "cors", "json", "cookieParser", "urlencoded", "morgan",
           "security", "router">>

IndexOf(s) == CHOOSE i \in 1..Len(Chain) : Chain[i] = s

NextStage(s) == IF IndexOf(s) < Len(Chain) THEN Chain[IndexOf(s) + 1] ELSE "done"

HeadersSent == Len(sent) > 0

PassThrough(stage) ==
  /\ pc = stage
  /\ stagesRun' = Append(stagesRun, stage)
  /\ pc' = NextStage(stage)
  /\ UNCHANGED <<expressMajor, nodeEnv, req, role, handed, decision, gateNext,
                 gateAttempts, sent, thrown, propagated, handlerRan, ctrl,
                 cookie>>

Helmet == PassThrough("helmet")

\* cors() with its defaults ends a preflight (OPTIONS) request itself
Cors ==
  /\ pc = "cors"
  /\ stagesRun' = Append(stagesRun, "cors")
  /\ IF req.method = "OPTIONS"
       THEN /\ sent' = Append(sent, [by |-> "cors", status |-> 204, error |-> ""])
            /\ pc' = "done"
       ELSE /\ sent' = sent
            /\ pc' = NextStage("cors")
  /\ UNCHANGED <<expressMajor, nodeEnv, req, role, handed, decision, gateNext,
                 gateAttempts, thrown, propagated, handlerRan, ctrl, cookie>>

\* express.json() passes a body it cannot parse to next(err)
Json ==
  /\ pc = "json"
  /\ stagesRun' = Append(stagesRun, "json")
  /\ IF req.bodyOk
       THEN /\ thrown' = thrown
            /\ pc' = NextStage("json")
       ELSE /\ thrown' = "parse"
            /\ pc' = "final"
  /\ UNCHANGED <<expressMajor, nodeEnv, req, role, handed, decision, gateNext,
                 gateAttempts, sent, propagated, handlerRan, ctrl, cookie>>

CookieParser == PassThrough("cookieParser")

Urlencoded == PassThrough("urlencoded")

Morgan == PassThrough("morgan")

-----------------------------------------------------------------------------
(* security.middleware.js *)

ResolveRoleNoFallback(user) == IF ~user.present THEN "" ELSE user.role

\* const role = req.user?.role || 'guest';
ResolveRole(user) ==
  IF ~user.present THEN "guest"
  ELSE IF user.role = "" THEN "guest" ELSE user.role

\* requests per minute of the role's sliding window
Limit(r) ==
  CASE r = "admin" -> 20
    [] r = "user"  -> 10
    [] r = "guest" -> 5
    [] OTHER       -> 0

IsDenied(d) == d \in DeniedReasons

\* decision.reason.isBot()
IsBot(d) == d = "Bot"

ReasonMethod(d, kind) == d = kind

\* decision.reason.isShield / decision.reason.isRateLimit: the method itself is
\* read, not called, and a function object is truthy
ReasonProperty(d, kind) == TRUE

\* res.status(status).json(..): throws once the headers are sent
GateSend(branch, status, error, after) ==
  /\ gateAttempts' = Append(gateAttempts, status)
  /\ IF HeadersSent
       THEN /\ thrown' = "headers_sent"
            /\ sent' = sent
            /\ pc' = "catch"
       ELSE /\ thrown' = thrown
            /\ sent' = Append(sent, [by |-> branch, status |-> status, error |-> error])
            /\ pc' = after

GateSkip(after) ==
  /\ pc' = after
  /\ UNCHANGED <<gateAttempts, sent, thrown>>

GateEnter ==
  /\ pc = "security"
  /\ stagesRun' = Append(stagesRun, "security")
  /\ role' = ResolveRole(req.user)
  /\ pc' = "protect"
  /\ UNCHANGED <<expressMajor, nodeEnv, req, handed, decision, gateNext,
                 gateAttempts, sent, thrown, propagated, handlerRan, ctrl,
                 cookie>>

\* const decision = await client.protect(req)
GateProtect ==
  /\ pc = "protect"
  /\ handed' = [role |-> role, max |-> Limit(role), interval |-> 60]
  /\ \E d \in Outcomes :
       /\ decision' = d
       /\ IF d = "Failed"
            THEN /\ thrown' = "classifier"
                 /\ pc' = "catch"
            ELSE /\ thrown' = thrown
                 /\ pc' = "bot"
  /\ UNCHANGED <<expressMajor, nodeEnv, req, stagesRun, role, gateNext,
                 gateAttempts, sent, propagated, handlerRan, ctrl, cookie>>

GateBot ==
  /\ pc = "bot"
  /\ IF IsDenied(decision) /\ IsBot(decision)
       THEN GateSend("bot", 403, "Forbidden", "shield")
       ELSE GateSkip("shield")
  /\ UNCHANGED <<expressMajor, nodeEnv, req, stagesRun, role, handed, decision,
                 gateNext, propagated, handlerRan, ctrl, cookie>>

GateShield ==
  /\ pc = "shield"
  /\ IF IsDenied(decision) /\ ReasonProperty(decision, "Shield")
       THEN GateSend("shield", 403, "Forbidden", "ratelimit")
       ELSE GateSkip("ratelimit")
  /\ UNCHANGED <<expressMajor, nodeEnv, req, stagesRun, role, handed, decision,
                 gateNext, propagated, handlerRan, ctrl, cookie>>

GateRateLimit ==
  /\ pc = "ratelimit"
  /\ IF IsDenied(decision) /\ ReasonProperty(decision, "RateLimit")
       THEN GateSend("ratelimit", 429, "Too Many Requests", "next")
       ELSE GateSkip("next")
  /\ UNCHANGED <<expressMajor, nodeEnv, req, stagesRun, role, handed, decision,
                 gateNext, propagated, handlerRan, ctrl, cookie>>

GateNextTwice ==
  /\ pc = "next"
  /\ gateNext' = gateNext + 2
  /\ pc' = NextStage("security")
  /\ UNCHANGED <<expressMajor, nodeEnv, req, stagesRun, role, handed, decision,
                 gateAttempts, sent, thrown, propagated, handlerRan, ctrl,
                 cookie>>

\* next();
GateNext ==
  /\ pc = "next"
  /\ gateNext' = gateNext + 1
  /\ pc' = NextStage("security")
  /\ UNCHANGED <<expressMajor, nodeEnv, req, stagesRun, role, handed, decision,
                 gateAttempts, sent, thrown, propagated, handlerRan, ctrl,
                 cookie>>

GateCatchFailOpen ==
  /\ pc = "catch"
  /\ gateNext' = gateNext + 1
  /\ pc' = NextStage("security")
  /\ UNCHANGED <<expressMajor, nodeEnv, req, stagesRun, role, handed, decision,
                 gateAttempts, sent, thrown, propagated, handlerRan, ctrl,
                 cookie>>

GateCatchRethrow ==
  /\ pc = "catch"
  /\ pc' = "rejected"
  /\ UNCHANGED <<expressMajor, nodeEnv, req, stagesRun, role, handed, decision,
                 gateNext, gateAttempts, sent, thrown, propagated, handlerRan,
                 ctrl, cookie>>

\* catch (e) { console.error(..); res.status(500).json(..) }: a throw in here
\* rejects the promise of the async middleware
GateCatch ==
  /\ pc = "catch"
  /\ gateAttempts' = Append(gateAttempts, 500)
  /\ IF HeadersSent
       THEN /\ thrown' = "headers_sent"
            /\ sent' = sent
            /\ pc' = "rejected"
       ELSE /\ thrown' = "none"
            /\ sent' = Append(sent, [by |-> "catch", status |-> 500,
                                     error |-> "Internal Server Error"])
            /\ pc' = "done"
  /\ UNCHANGED <<expressMajor, nodeEnv, req, stagesRun, role, handed, decision,
                 gateNext, propagated, handlerRan, ctrl, cookie>>

\* the rejected promise: express 5 hands it to next(err), express 4 leaves an
\* unhandled rejection
GateRejected ==
  /\ pc = "rejected"
  /\ IF expressMajor = 5
       THEN /\ propagated' = "next_err"
            /\ pc' = "final"
       ELSE /\ propagated' = "unhandledRejection"
            /\ pc' = "done"
  /\ UNCHANGED <<expressMajor, nodeEnv, req, stagesRun, role, handed, decision,
                 gateNext, gateAttempts, sent, thrown, handlerRan, ctrl,
                 cookie>>

-----------------------------------------------------------------------------
(* utils/cookies.js *)

NoOptions == [k \in {} |-> TRUE]

\* cookies.getOptions()
GetOptions ==
  [httpOnly |-> TRUE, secure |-> (nodeEnv = "production"),
   sameSite |-> "Strict", maxAge |-> 15 * 60 * 1000]

\* {...cookies.getOptions(), ...options}
Spread(a, b) ==
  [k \in DOMAIN a \cup DOMAIN b |-> IF k \in DOMAIN b THEN b[k] ELSE a[k]]

\* cookies.setCookie(res, name, value, options = {})
SetCookie(name, value, options) ==
  [op |-> "set", name |-> name, value |-> value,
   options |-> Spread(GetOptions, options)]

\* cookies.clear(res, name, options = {})
ClearCookie(name, options) ==
  [op |-> "clear", name |-> name, value |-> "",
   options |-> Spread(GetOptions, options)]

NoCookie == [op |-> "none", name |-> "", value |-> "", options |-> NoOptions]

-----------------------------------------------------------------------------
(* routing: app.js and routes/auth.route.js *)

AuthRoute(method, sub) ==
  IF method = "POST" /\ sub = "/sign-up" THEN "signUp"
  ELSE IF method = "POST" /\ sub = "/sign-in" THEN "signIn"
  ELSE IF method = "POST" /\ sub = "/sign-out" THEN "signOut"
  ELSE "notFound"

Route(method, path) ==
  IF method = "GET" /\ path = "/" THEN "root"
  ELSE IF method = "GET" /\ path = "/health" THEN "health"
  ELSE IF method = "GET" /\ path = "/api" THEN "api"
  ELSE IF path = "/api/auth/sign-up" THEN AuthRoute(method, "/sign-up")
  ELSE IF path = "/api/auth/sign-in" THEN AuthRoute(method, "/sign-in")
  ELSE IF path = "/api/auth/sign-out" THEN AuthRoute(method, "/sign-out")
  ELSE "notFound"

\* a handler's res.status(..).json(..) / send(..)
Respond(by, status, error) ==
  IF HeadersSent THEN sent
  ELSE Append(sent, [by |-> by, status |-> status, error |-> error])

Router ==
  /\ pc = "router"
  /\ stagesRun' = Append(stagesRun, "router")
  /\ pc' = Route(req.method, req.path)
  /\ UNCHANGED <<expressMajor, nodeEnv, req, role, handed, decision, gateNext,
                 gateAttempts, sent, thrown, propagated, handlerRan, ctrl,
                 cookie>>

Plain(name) ==
  /\ pc = name
  /\ handlerRan' = name
  /\ sent' = Respond(name, 200, "")
  /\ pc' = "done"
  /\ UNCHANGED <<expressMajor, nodeEnv, req, stagesRun, role, handed, decision,
                 gateNext, gateAttempts, thrown, propagated, ctrl, cookie>>

Root == Plain("root")

Health == Plain("health")

Api == Plain("api")

\* no route matched: express answers 404
NotFound ==
  /\ pc = "notFound"
  /\ handlerRan' = "notFound"
  /\ sent' = Respond("finalhandler", 404, "Not Found")
  /\ pc' = "done"
  /\ UNCHANGED <<expressMajor, nodeEnv, req, stagesRun, role, handed, decision,
                 gateNext, gateAttempts, thrown, propagated, ctrl, cookie>>

\* the default error handler of express: nothing can be sent once the headers
\* are out
FinalHandler ==
  /\ pc = "final"
  /\ sent' = Respond("finalhandler", IF thrown = "parse" THEN 400 ELSE 500,
                     "error")
  /\ pc' = "done"
  /\ UNCHANGED <<expressMajor, nodeEnv, req, stagesRun, role, handed, decision,
                 gateNext, gateAttempts, thrown, propagated, handlerRan, ctrl,
                 cookie>>

-----------------------------------------------------------------------------
(* controllers/auth.controller.js *)

EmailExists == "User with this email already exists"

CreateUserResults == {"ok", EmailExists, "Database error"}

AuthenticateResults == {"ok", "User not found", "Invalid password",
                        "Database error"}

\* what a run of a controller did: status 0 is no response
Did(status, error, called, service, signed, setc, nexte) ==
  [status |-> status, error |-> error, serviceCalled |-> called,
   service |-> service, tokenSigned |-> signed, setCookie |-> setc,
   nextErr |-> nexte]

SignUpCookieFirst(valid, svc, signOk) ==
  IF ~valid
    THEN Did(400, "Validation failed", FALSE, "none", FALSE, TRUE, FALSE)
  ELSE IF svc = EmailExists
    THEN Did(409, "Email already exists", TRUE, svc, FALSE, TRUE, FALSE)
  ELSE IF svc # "ok"
    THEN Did(0, "", TRUE, svc, FALSE, TRUE, TRUE)
  ELSE IF ~signOk
    THEN Did(0, "", TRUE, svc, FALSE, FALSE, TRUE)
  ELSE Did(201, "", TRUE, svc, TRUE, TRUE, FALSE)

\* signUp: valid is validationResult.success, svc what createUser returned or
\* the message it threw, signOk whether jwttoken.sign returned
SignUpRun(valid, svc, signOk) ==
  IF ~valid
    THEN Did(400, "Validation failed", FALSE, "none", FALSE, FALSE, FALSE)
  ELSE IF svc = EmailExists
    THEN Did(409, "Email already exists", TRUE, svc, FALSE, FALSE, FALSE)
  ELSE IF svc # "ok"
    THEN Did(0, "", TRUE, svc, FALSE, FALSE, TRUE)
  ELSE IF ~signOk
    THEN Did(0, "", TRUE, svc, FALSE, FALSE, TRUE)
  ELSE Did(201, "", TRUE, svc, TRUE, TRUE, FALSE)

SignInRunLeaky(valid, svc, signOk) ==
  IF ~valid
    THEN Did(400, "Validation failed", FALSE, "none", FALSE, FALSE, FALSE)
  ELSE IF svc = "User not found"
    THEN Did(404, "User not found", TRUE, svc, FALSE, FALSE, FALSE)
  ELSE IF svc = "Invalid password"
    THEN Did(401, "Invalid email or password", TRUE, svc, FALSE, FALSE, FALSE)
  ELSE IF svc # "ok"
    THEN Did(0, "", TRUE, svc, FALSE, FALSE, TRUE)
  ELSE IF ~signOk
    THEN Did(0, "", TRUE, svc, FALSE, FALSE, TRUE)
  ELSE Did(200, "", TRUE, svc, TRUE, TRUE, FALSE)

\* signIn: svc is what authenticateUser returned or the message it threw
SignInRun(valid, svc, signOk) ==
  IF ~valid
    THEN Did(400, "Validation failed", FALSE, "none", FALSE, FALSE, FALSE)
  ELSE IF svc = "User not found" \/ svc = "Invalid password"
    THEN Did(401, "Invalid email or password", TRUE, svc, FALSE, FALSE, FALSE)
  ELSE IF svc # "ok"
    THEN Did(0, "", TRUE, svc, FALSE, FALSE, TRUE)
  ELSE IF ~signOk
    THEN Did(0, "", TRUE, svc, FALSE, FALSE, TRUE)
  ELSE Did(200, "", TRUE, svc, TRUE, TRUE, FALSE)

Controller(name, valid, d) ==
  /\ handlerRan' = name
  /\ ctrl' = [validated |-> IF valid THEN "ok" ELSE "fail",
              serviceCalled |-> d.serviceCalled, service |-> d.service,
              tokenSigned |-> d.tokenSigned, nextErr |-> d.nextErr]
  /\ cookie' = IF d.setCookie THEN SetCookie("token", "jwt", NoOptions) ELSE cookie
  /\ sent' = IF d.status = 0 THEN sent ELSE Respond(name, d.status, d.error)
  /\ thrown' = IF d.nextErr THEN "controller" ELSE thrown
  /\ pc' = IF d.nextErr THEN "final" ELSE "done"
  /\ UNCHANGED <<expressMajor, nodeEnv, req, stagesRun, role, handed, decision,
                 gateNext, gateAttempts, propagated>>

SignUp ==
  /\ pc = "signUp"
  /\ \E valid \in BOOLEAN, svc \in CreateUserResults, signOk \in BOOLEAN :
       Controller("signUp", valid, SignUpRun(valid, svc, signOk))

SignIn ==
  /\ pc = "signIn"
  /\ \E valid \in BOOLEAN, svc \in AuthenticateResults, signOk \in BOOLEAN :
       Controller("signIn", valid, SignInRun(valid, svc, signOk))

SignOut ==
  /\ pc = "signOut"
  /\ handlerRan' = "signOut"
  /\ cookie' = ClearCookie("token", NoOptions)
  /\ sent' = Respond("signOut", 200, "")
  /\ pc' = "done"
  /\ UNCHANGED <<expressMajor, nodeEnv, req, stagesRun, role, handed, decision,
                 gateNext, gateAttempts, thrown, propagated, ctrl>>

-----------------------------------------------------------------------------
(* Specifications *)

Requests(users) ==
  [method : Methods, path : Paths, user : users, bodyOk : BOOLEAN]

Build ==
  /\ expressMajor \in {4, 5}
  /\ nodeEnv \in {"production", "development"}

Fresh ==
  /\ role = "unset"
  /\ handed = [role |-> "unset", max |-> 0, interval |-> 0]
  /\ decision = "None"
  /\ gateNext = 0
  /\ gateAttempts = <<>>
  /\ sent = <<>>
  /\ thrown = "none"
  /\ propagated = "none"
  /\ handlerRan = "none"
  /\ ctrl = NoCtrl
  /\ cookie = NoCookie

\* the application: nothing in the chain of app.js sets req.user
Init ==
  /\ Build
  /\ req \in Requests({NoUser})
  /\ pc = Chain[1]
  /\ stagesRun = <<>>
  /\ Fresh

Gate ==
  \/ GateEnter
  \/ GateProtect
  \/ GateBot
  \/ GateShield
  \/ GateRateLimit
  \/ GateNext
  \/ GateCatch
  \/ GateRejected

Next ==
  \/ Helmet
  \/ Cors
  \/ Json
  \/ CookieParser
  \/ Urlencoded
  \/ Morgan
  \/ Gate
  \/ Router
  \/ Root
  \/ Health
  \/ Api
  \/ NotFound
  \/ SignUp
  \/ SignIn
  \/ SignOut
  \/ FinalHandler

Spec == Init /\ [][Next]_vars

\* the security middleware on its own, applied to a request that an upstream
\* authentication stage may have given an identity
InitGate ==
  /\ Build
  /\ req \in Requests({NoUser} \cup Identities)
  /\ req.method # "OPTIONS"
  /\ req.bodyOk
  /\ pc = "security"
  /\ stagesRun = SubSeq(Chain, 1, IndexOf("security") - 1)
  /\ Fresh

NextGate == Gate

SpecGate == InitGate /\ [][NextGate]_vars

-----------------------------------------------------------------------------
(* Properties *)

GatePcs == {"security", "protect", "bot", "shield", "ratelimit", "next",
            "catch", "rejected"}

GateBranches == {"bot", "shield", "ratelimit", "catch"}

Handlers == {"root", "health", "api", "signUp", "signIn", "signOut", "notFound"}

GateRuns == Cardinality({i \in 1..Len(stagesRun) : stagesRun[i] = "security"})

GateFinished == GateRuns > 0 /\ pc \notin GatePcs

ByGate(r) == r.by \in GateBranches

GateSent == SelectSeq(sent, ByGate)

Forwarded == gateNext > 0

Terminated == Len(GateSent) > 0

C3_StatusByReason ==
  (IsDenied(decision) /\ GateFinished) =>
     /\ Len(GateSent) = 1
     /\ GateSent[1].status = (IF decision = "RateLimit" THEN 429 ELSE 403)

\* C4: at most one branch of the security middleware answers a request, and
\* after an answer no second response is attempted
C4_FirstMatchWins ==
  /\ Len(gateAttempts) <= 1
  /\ Len(GateSent) <= 1

\* C5: when the classifier call fails the security middleware answers 500,
\* does not hand the request on, and lets no error out
C5_FailClosed ==
  decision = "Failed" =>
     /\ gateNext = 0
     /\ propagated = "none"
     /\ handlerRan = "none"
     /\ GateFinished =>
          /\ pc = "done"
          /\ thrown = "none"
          /\ sent = <<[by |-> "catch", status |-> 500,
                       error |-> "Internal Server Error"]>>

C5_Witness ==
  /\ decision = "Failed"
  /\ pc = "done"
  /\ Len(sent) = 1

C6_AllowedState ==
  decision = "Allowed" =>
     /\ gateAttempts = <<>>
     /\ GateSent = <<>>
     /\ propagated = "none"
     /\ gateNext <= 1
     /\ GateFinished => gateNext = 1

\* C6: an allowed request is handed on with next() exactly once, the security
\* middleware sends nothing for it, and the request is not changed
C6_AllowedForwardedOnce ==
  /\ []C6_AllowedState
  /\ [][req' = req]_vars

C6_Witness ==
  /\ decision = "Allowed"
  /\ GateFinished
  /\ gateNext = 1
  /\ handlerRan = "signUp"

C8_GateFirstAlways ==
  /\ stagesRun # <<>> => stagesRun[1] = "security"
  /\ pc = "done" => GateRuns = 1

\* C8 amended: the security middleware runs at most once per request, right
\* after helmet, cors, json, cookieParser, urlencoded and morgan, and routing
\* and every route handler come only after it has run
C8_GateBeforeRouting ==
  /\ GateRuns <= 1
  /\ GateRuns = 1 =>
       /\ Len(stagesRun) >= 7
       /\ SubSeq(stagesRun, 1, 7) = <<"helmet", "cors", "json", "cookieParser",
                                       "urlencoded", "morgan", "security">>
  /\ (pc \in Handlers \cup {"router"} \/ handlerRan # "none") =>
       (GateRuns = 1 /\ gateNext = 1)
  /\ \A i \in 1..Len(sent) : sent[i].by \in Handlers => GateRuns = 1

C8_Witness ==
  /\ handlerRan = "health"
  /\ GateRuns = 1
  /\ Len(sent) = 1
  /\ sent[1].by = "health"

SentBy(name, status) ==
  \E i \in 1..Len(sent) : sent[i].by = name /\ sent[i].status = status

\* C9: signUp sets the token cookie and answers 201 only after validation
\* passed and createUser returned; a body that fails validation gets 400
\* without createUser, an existing email gets 409, and in both cases no token
\* is signed, no cookie set and next() not called
C9_SignUpOrder ==
  handlerRan = "signUp" =>
     /\ (cookie.op = "set" \/ SentBy("signUp", 201)) =>
          (ctrl.validated = "ok" /\ ctrl.service = "ok" /\ ctrl.tokenSigned)
     /\ ctrl.validated = "fail" =>
          /\ sent = <<[by |-> "signUp", status |-> 400,
                       error |-> "Validation failed"]>>
          /\ ~ctrl.serviceCalled
          /\ ~ctrl.tokenSigned
          /\ cookie = NoCookie
          /\ ~ctrl.nextErr
     /\ ctrl.service = EmailExists =>
          /\ sent = <<[by |-> "signUp", status |-> 409,
                       error |-> "Email already exists"]>>
          /\ ~ctrl.tokenSigned
          /\ cookie = NoCookie
          /\ ~ctrl.nextErr

C9_Witness ==
  /\ handlerRan = "signUp"
  /\ ctrl.service = EmailExists
  /\ SentBy("signUp", 409)

\* C10: signIn answers 'User not found' and 'Invalid password' alike: 401,
\* 'Invalid email or password', no cookie, next() not called; any other
\* failure of authenticateUser goes to next(e) and signIn sends nothing
C10_SignInUniform ==
  handlerRan = "signIn" =>
     /\ ctrl.service \in {"User not found", "Invalid password"} =>
          /\ sent = <<[by |-> "signIn", status |-> 401,
                       error |-> "Invalid email or password"]>>
          /\ cookie = NoCookie
          /\ ~ctrl.nextErr
          /\ pc = "done"
     /\ ctrl.service = "Database error" =>
          /\ ctrl.nextErr
          /\ cookie = NoCookie
          /\ \A i \in 1..Len(sent) : sent[i].by # "signIn"

C10_Witness ==
  /\ handlerRan = "signIn"
  /\ ctrl.service = "User not found"
  /\ SentBy("signIn", 401)

====
